---- MODULE Spec2Model ----
(***************************************************************************)
(* Model of the NeoTaste deal scraper: main.py (argument handling, the     *)
(* single-city and all-cities runs, the final output step) and             *)
(* neotaste_scraper.py (card extraction, deal filtering, the city          *)
(* directory).                                                             *)
(*                                                                         *)
(* Strings are sequences of tokens, so that startswith, substring search,  *)
(* split("/") and strip are computed as Python computes them.  "/" and ":" *)
(* and " " are tokens of their own.  An optional value (a missing          *)
(* attribute, a missing element, Python's None) is a sequence of length    *)
(* zero or one.                                                            *)
(***************************************************************************)
EXTENDS Integers, Sequences, FiniteSets, TLC

VARIABLES pc, args, filter_mode, cities, idx, cities_data,
          directory, page, url, stdout, error

vars == <<pc, args, filter_mode, cities, idx, cities_data,
          directory, page, url, stdout, error>>

(* ------------------------------ bounds --------------------------------- *)

\* largest number of anchors on a fetched city page
MaxCards == 2

\* largest number of anchors in the directory list of the cities page
MaxCities == 2

(* --------------------------- string helpers ---------------------------- *)

None == <<>>
Some(x) == <<x>>

\* the star glyph of event deals and the bolt glyph of flash deals
Star == "U+1F31F"
Bolt == "U+26A1"
Space == " "

Range(s) == {s[i] : i \in 1..Len(s)}

\* str.startswith
StartsWith(s, p) == Len(s) >= Len(p) /\ SubSeq(s, 1, Len(p)) = p

\* str.endswith
EndsWith(s, p) == Len(s) >= Len(p) /\ SubSeq(s, Len(s) - Len(p) + 1, Len(s)) = p

\* the `in` operator on strings, and the CSS *= attribute operator
Contains(s, p) ==
    \E i \in 1..(Len(s) - Len(p) + 1) : SubSeq(s, i, i + Len(p) - 1) = p

\* str.split("/")
RECURSIVE Split(_)
Split(s) ==
    IF "/" \notin Range(s)
    THEN <<s>>
    ELSE LET i == CHOOSE k \in 1..Len(s) :
                      s[k] = "/" /\ \A j \in 1..(k - 1) : s[j] # "/"
         IN  <<SubSeq(s, 1, i - 1)>> \o Split(SubSeq(s, i + 1, Len(s)))

\* str.strip, as get_text(strip=True) applies it to a single text node
RECURSIVE Strip(_)
Strip(s) ==
    IF s = <<>> THEN s
    ELSE IF Head(s) = Space THEN Strip(Tail(s))
    ELSE IF s[Len(s)] = Space THEN Strip(SubSeq(s, 1, Len(s) - 1))
    ELSE s

\* sequences over S of length at most n
SeqUpTo(S, n) == UNION {[1..k -> S] : k \in 0..n}

(* ----------------------------- constants ------------------------------- *)

BASE_URL == <<"http", "s", ":", "/", "/", "neotaste.com">>

localized_strings ==
    [de |-> [deals_in |-> "Deals in", no_deals_found |-> "Keine Deals gefunden."],
     en |-> [deals_in |-> "Deals in", no_deals_found |-> "No deals found."]]

get_localized_strings(lang) ==
    IF lang \in DOMAIN localized_strings
    THEN localized_strings[lang]
    ELSE localized_strings["de"]

get_city_url(city_slug, lang) ==
    BASE_URL \o <<"/", lang, "/", "restaurants", "/">> \o city_slug

\* the URL fetch_all_cities requests
DirectoryUrl(lang) == BASE_URL \o <<"/", lang, "/", "restaurants">>

(* ------------------------------- inputs -------------------------------- *)

\* values of the data-sentry-component attribute
RestaurantDealPreview == <<"Restaurant", "DealPreview">>
EventDealPreview == <<"Event", "DealPreview">>
RestaurantCardBadge == <<"Restaurant", "CardBadge">>

Element(component, spans) == [component |-> component, spans |-> spans]

\* an <a> of a city page: its href attribute, its <h4>, and the children of
\* its RestaurantCardDeals element (each optional)
Anchor(href, h4, container) == [href |-> href, h4 |-> h4, container |-> container]

RestaurantHref(slug) == <<"/", "de", "/", "restaurants", "/", "berlin", "/", slug>>

FlashText == <<Bolt, Space, "20% off">>
EventText == <<Star, Space, "Free dessert">>
PlainText == <<"2-for-1">>

\* "⚡ 20% off" in a RestaurantDealPreview
FlashCard ==
    Anchor(Some(RestaurantHref("trattoria")), Some(<<"Trattoria">>),
           Some(<<Element(RestaurantDealPreview, <<FlashText>>)>>))

\* "🌟 Free dessert" in an EventDealPreview
EventRoleCard ==
    Anchor(Some(RestaurantHref("cafe")), Some(<<"Cafe">>),
           Some(<<Element(EventDealPreview, <<EventText>>)>>))

\* an absolute href, a padded name, and star, plain, blank and badge spans
MixedCard ==
    Anchor(Some(BASE_URL \o RestaurantHref("sushi-bar")),
           Some(<<Space, "Sushi", Space, "Bar", Space>>),
           Some(<<Element(RestaurantDealPreview, <<<<Space, Star, Space, "Brunch", Space>>>>),
                  Element(RestaurantDealPreview, <<PlainText, <<Space, Space>>>>),
                  Element(RestaurantCardBadge, <<<<"New">>>>)>>))

\* a relative href that begins with the letters http
HttpDocsCard ==
    Anchor(Some(<<"http", "docs", "/", "restaurants", "/", "imbiss">>),
           Some(<<"Imbiss">>),
           Some(<<Element(RestaurantDealPreview, <<PlainText>>)>>))

NoNameCard ==
    Anchor(Some(RestaurantHref("bistro")), None,
           Some(<<Element(RestaurantDealPreview, <<EventText>>)>>))

NoContainerCard ==
    Anchor(Some(RestaurantHref("kantine")), Some(<<"Kantine">>), None)

\* anchors that are no restaurant cards
NavAnchor == Anchor(Some(<<"/", "de", "/", "about">>), Some(<<"About">>), None)
BareAnchor == Anchor(None, None, None)

AnchorPool == {FlashCard, EventRoleCard, MixedCard, HttpDocsCard,
               NoNameCard, NoContainerCard, NavAnchor, BareAnchor}

\* the all-cities run draws its pages over this part of the pool
CrawlPool == {FlashCard, MixedCard}

\* what requests.get gives: a RequestException, or the parsed anchors
FetchFailure == [ok |-> FALSE, html |-> <<>>]
Fetched(html) == [ok |-> TRUE, html |-> html]

CityResponses == {FetchFailure} \cup {Fetched(h) : h \in SeqUpTo(AnchorPool, MaxCards)}
CrawlResponses == {FetchFailure} \cup {Fetched(h) : h \in SeqUpTo(CrawlPool, MaxCards)}

\* an <a> of the CitiesList element: its href and its .font-semibold label
CityAnchor(href, label) == [href |-> href, label |-> label]

CityHref(slug) == <<"/", "de", "/", "restaurants", "/", slug>>

CityAnchorPool ==
    {CityAnchor(Some(CityHref("berlin")), Some(<<Space, "Berlin">>)),
     CityAnchor(Some(CityHref("munich")), Some(<<"Munich">>)),
     CityAnchor(Some(CityHref("hamburg")), None),
     CityAnchor(None, Some(<<"Cologne">>)),
     CityAnchor(Some(<<"/", "de">>), Some(<<"Home">>))}

DirectoryResponses ==
    {FetchFailure} \cup {Fetched(h) : h \in SeqUpTo(CityAnchorPool, MaxCities)}

Langs == {"de", "en"}
FilterFlags == {"events", "flash", "special", "none"}

\* the parsed command line: --city, --all, the filter flag given, --lang
ArgsSet ==
    [city : {None, Some(<<"berlin">>)}, all : BOOLEAN,
     flag : FilterFlags, lang : Langs]

(* ------------------------------ scraper -------------------------------- *)

\* an operation's outcome: the exception it raises ("none" if it returns)
\* and the value it returns
Return(v) == [exc |-> "none", value |-> v]
Raise(e) == [exc |-> e, value |-> <<>>]

\* truth value of the filter argument: None is false, a flag name is true
Truthy(filter_events) == filter_events # "None"

\* soup.select("a[href*='/restaurants/']")
RECURSIVE SelectCards(_)
SelectCards(html) ==
    IF html = <<>> THEN <<>>
    ELSE LET a == Head(html)
         IN  (IF a.href # None /\ Contains(a.href[1], <<"/", "restaurants", "/">>)
              THEN <<a>> ELSE <<>>) \o SelectCards(Tail(html))

\* deals_container.select('[data-sentry-component="RestaurantDealPreview"] span')
RECURSIVE SelectDealSpans(_)
SelectDealSpans(elements) ==
    IF elements = <<>> THEN <<>>
    ELSE (IF Head(elements).component = RestaurantDealPreview
          THEN Head(elements).spans ELSE <<>>) \o SelectDealSpans(Tail(elements))

\* [sp.get_text(strip=True) for sp in deal_spans if sp.get_text(strip=True)]
RECURSIVE DealTexts(_)
DealTexts(spans) ==
    IF spans = <<>> THEN <<>>
    ELSE (IF Strip(Head(spans)) # <<>> THEN <<Strip(Head(spans))>> ELSE <<>>)
         \o DealTexts(Tail(spans))

\* the filter a plausible partial implementation of the modes would apply:
\* flash filters on the bolt glyph, every other flag on the star glyph
FilterDeals_FlashByBolt(deals, filter_events) ==
    IF filter_events = "flash"
    THEN SelectSeq(deals, LAMBDA d : Bolt \in Range(d))
    ELSE IF Truthy(filter_events)
    THEN SelectSeq(deals, LAMBDA d : Star \in Range(d))
    ELSE deals

\* if filter_events: deals = [deal for deal in deals if "🌟" in deal]
FilterDeals(deals, filter_events) ==
    IF Truthy(filter_events)
    THEN SelectSeq(deals, LAMBDA d : Star \in Range(d))
    ELSE deals

\* an entry is returned even when no deal is left
EntryOrNone_KeepsEmpty(name, deals, link) ==
    Some([restaurant |-> name, deals |-> deals, link |-> link])

\* if not deals: return None; return {"restaurant": ..., "deals": ..., "link": ...}
EntryOrNone(name, deals, link) ==
    IF deals = <<>>
    THEN None
    ELSE Some([restaurant |-> name, deals |-> deals, link |-> link])

\* link = card.get("href"); if not link.startswith("http"): link = BASE_URL + link
ResolveLink(href) ==
    IF StartsWith(href, <<"http">>) THEN href ELSE BASE_URL \o href

extract_deals_from_card(card, filter_events) ==
    IF card.href = None
    THEN Raise("AttributeError")
    ELSE IF card.h4 = None
    THEN Return(None)
    ELSE IF card.container = None
    THEN Return(None)
    ELSE Return(EntryOrNone(
             Strip(card.h4[1]),
             FilterDeals(DealTexts(SelectDealSpans(card.container[1])), filter_events),
             ResolveLink(card.href[1])))

\* a result is put in front of the list
AppendResult_Prepends(results, result) ==
    IF result = None THEN results ELSE result \o results

\* if result: results.append(result)
AppendResult(results, result) ==
    IF result = None THEN results ELSE results \o result

\* for card in cards: ...
RECURSIVE CardLoop(_, _, _)
CardLoop(cards, results, filter_events) ==
    IF cards = <<>>
    THEN Return(results)
    ELSE LET r == extract_deals_from_card(Head(cards), filter_events)
         IN  IF r.exc # "none"
             THEN Raise(r.exc)
             ELSE CardLoop(Tail(cards), AppendResult(results, r.value), filter_events)

\* the RequestException is not caught
fetch_deals_from_city_Propagates(response, filter_events) ==
    IF ~response.ok
    THEN Raise("RequestException")
    ELSE CardLoop(SelectCards(response.html), <<>>, filter_events)

fetch_deals_from_city(response, filter_events) ==
    IF ~response.ok
    THEN Return(<<>>)
    ELSE CardLoop(SelectCards(response.html), <<>>, filter_events)

\* link.get("href").split("/")[3]
Slug(href) ==
    IF href = None
    THEN Raise("AttributeError")
    ELSE IF Len(Split(href[1])) < 4
    THEN Raise("IndexError")
    ELSE Return(Split(href[1])[4])

\* for link in city_links: ...
RECURSIVE CityLoop(_, _)
CityLoop(city_links, result) ==
    IF city_links = <<>>
    THEN Return(result)
    ELSE LET link == Head(city_links)
         IN  IF link.label = None
             THEN CityLoop(Tail(city_links), result)
             ELSE LET s == Slug(link.href)
                  IN  IF s.exc # "none"
                      THEN Raise(s.exc)
                      ELSE CityLoop(Tail(city_links),
                                    Append(result, [slug |-> s.value,
                                                    name |-> Strip(link.label[1])]))

fetch_all_cities(response) ==
    IF ~response.ok
    THEN Return(<<>>)
    ELSE CityLoop(response.html, <<>>)


(* -------------------------------- main --------------------------------- *)

\* a dict, in insertion order: a sequence of key/value pairs
Keys(d) == [i \in 1..Len(d) |-> d[i].key]
HasKey(d, k) == \E i \in 1..Len(d) : d[i].key = k
Get(d, k) == d[CHOOSE i \in 1..Len(d) : d[i].key = k].value

\* d[k] = v: a new key goes last, a known key keeps its place
DictSet(d, k, v) ==
    IF HasKey(d, k)
    THEN [i \in 1..Len(d) |-> IF d[i].key = k THEN [key |-> k, value |-> v] ELSE d[i]]
    ELSE Append(d, [key |-> k, value |-> v])

Line(kind, text) == [kind |-> kind, text |-> text]

RECURSIVE DealLines(_)
DealLines(deals) ==
    IF deals = <<>> THEN <<>>
    ELSE <<Line("deal", Head(deals))>> \o DealLines(Tail(deals))

RECURSIVE RestaurantLines(_)
RestaurantLines(city_deals) ==
    IF city_deals = <<>> THEN <<>>
    ELSE LET r == Head(city_deals)
         IN  <<Line("restaurant", r.restaurant)>> \o DealLines(r.deals)
             \o <<Line("link", r.link)>> \o RestaurantLines(Tail(city_deals))

\* the lines print_deals writes
RECURSIVE print_deals(_, _)
print_deals(data, lang) ==
    IF data = <<>> THEN <<>>
    ELSE <<Line("deals_in", <<get_localized_strings(lang).deals_in>> \o Head(data).key)>>
         \o RestaurantLines(Head(data).value)
         \o print_deals(Tail(data), lang)

\* filter_mode as main decides it from the flags
FilterMode(flag) == IF flag = "none" THEN "None" ELSE flag

Init ==
    /\ pc = "start"
    /\ args \in ArgsSet
    /\ filter_mode = "None"
    /\ cities = <<>>
    /\ idx = 1
    /\ cities_data = <<>>
    /\ directory = None
    /\ page = None
    /\ url = <<>>
    /\ stdout = <<>>
    /\ error = "none"

\* the --city/--all check and the choice of filter_mode
ParseArgs ==
    /\ pc = "start"
    /\ IF args.city # None /\ args.all
       THEN /\ stdout' = Append(stdout, Line("usage_error", "--city and --all cannot be used together."))
            /\ pc' = "done"
            /\ UNCHANGED filter_mode
       ELSE /\ filter_mode' = FilterMode(args.flag)
            /\ pc' = IF args.city # None THEN "city"
                     ELSE IF args.all THEN "directory" ELSE "output"
            /\ UNCHANGED stdout
    /\ UNCHANGED <<args, cities, idx, cities_data, directory, page, url, error>>

\* if args.city: the one city is fetched and recorded
FetchCity ==
    /\ pc = "city"
    /\ \E response \in CityResponses :
          LET r == fetch_deals_from_city(response, filter_mode)
          IN  /\ url' = get_city_url(args.city[1], args.lang)
              /\ page' = Some(response)
              /\ stdout' = Append(stdout, Line("fetching_city", args.city[1]))
              /\ IF r.exc # "none"
                 THEN /\ error' = r.exc
                      /\ pc' = "crashed"
                      /\ UNCHANGED cities_data
                 ELSE /\ cities_data' = DictSet(cities_data, args.city[1], r.value)
                      /\ pc' = "output"
                      /\ UNCHANGED error
    /\ UNCHANGED <<args, filter_mode, cities, idx, directory>>

\* elif args.all: the directory of cities is fetched
FetchDirectory ==
    /\ pc = "directory"
    /\ \E response \in DirectoryResponses :
          LET r == fetch_all_cities(response)
          IN  /\ url' = DirectoryUrl(args.lang)
              /\ directory' = Some(response)
              /\ stdout' = Append(stdout, Line("fetching_all", ""))
              /\ IF r.exc # "none"
                 THEN /\ error' = r.exc
                      /\ pc' = "crashed"
                      /\ UNCHANGED cities
                 ELSE /\ cities' = r.value
                      /\ pc' = IF r.value = <<>> THEN "output" ELSE "loop"
                      /\ UNCHANGED error
    /\ UNCHANGED <<args, filter_mode, idx, cities_data, page>>

\* one turn of: for city in cities
FetchNextCity ==
    /\ pc = "loop"
    /\ idx <= Len(cities)
    /\ \E response \in CrawlResponses :
          LET city == cities[idx]
              r == fetch_deals_from_city(response, filter_mode)
          IN  /\ url' = get_city_url(city.slug, args.lang)
              /\ page' = Some(response)
              /\ stdout' = Append(stdout, Line("fetching_city", city.slug))
              /\ IF r.exc # "none"
                 THEN /\ error' = r.exc
                      /\ pc' = "crashed"
                      /\ UNCHANGED <<cities_data, idx>>
                 ELSE /\ cities_data' = DictSet(cities_data, city.slug, r.value)
                      /\ idx' = idx + 1
                      /\ pc' = IF idx = Len(cities) THEN "output" ELSE "loop"
                      /\ UNCHANGED error
    /\ UNCHANGED <<args, filter_mode, cities, directory>>

\* if not cities_data: the "no deals found" message; else print_deals
Output ==
    /\ pc = "output"
    /\ stdout' = IF cities_data = <<>>
                 THEN Append(stdout, Line("no_deals_found",
                                          get_localized_strings(args.lang).no_deals_found))
                 ELSE stdout \o print_deals(cities_data, args.lang)
    /\ pc' = "done"
    /\ UNCHANGED <<args, filter_mode, cities, idx, cities_data, directory, page, url, error>>

Next == ParseArgs \/ FetchCity \/ FetchDirectory \/ FetchNextCity \/ Output

Spec == Init /\ [][Next]_vars


(* ------------------------- notions of the claims ----------------------- *)

\* a city page has been fetched and parsed, and nothing was raised
PageParsed == page # None /\ page[1].ok /\ error = "none"

\* the restaurant cards of the page fetched last
Cards == SelectCards(page[1].html)

\* the city fetched last, and the entries recorded for it
LastSlug == IF args.city # None THEN args.city[1] ELSE cities[idx - 1].slug
LastEntries == Get(cities_data, LastSlug)

\* the slugs of the cities fetched so far, in the order of their fetches
Processed ==
    IF args.city # None
    THEN IF page # None /\ error = "none" THEN <<args.city[1]>> ELSE <<>>
    ELSE [i \in 1..(idx - 1) |-> cities[i].slug]

\* the deal texts the extractor collects from a card, and those a mode keeps
Collected(card) == DealTexts(SelectDealSpans(card.container[1]))
Kept(card, mode) == FilterDeals(Collected(card), mode)

\* the number of elements of S below i
Below(S, i) == Cardinality({j \in S : j < i})

\* a URL with a scheme, "://" and a host
IsAbsolute(link) ==
    \E k \in 1..(Len(link) - 4) :
        /\ \A j \in 1..k : link[j] \notin {"/", ":"}
        /\ SubSeq(link, k + 1, k + 3) = <<":", "/", "/">>
        /\ link[k + 4] \notin {"/", ":"}

\* a string that starts with a scheme
HasScheme(href) ==
    \E k \in 1..(Len(href) - 3) :
        /\ \A j \in 1..k : href[j] \notin {"/", ":"}
        /\ SubSeq(href, k + 1, k + 3) = <<":", "/", "/">>

\* the entries of a list that come from the card: same link, same name
EntriesOf(card, entries) ==
    {e \in Range(entries) : e.link = ResolveLink(card.href[1])}

(* ------------------------------- claims -------------------------------- *)

\* C1: for every card whose deal list holds a deal with the flash glyph and
\* no star glyph, a run with mode flash keeps that deal in the card's entry
\* and a run with mode events drops it.
C1_FlashKeepsEventsDrops ==
    PageParsed =>
        \A i \in 1..Len(Cards) :
            LET card == Cards[i]
            IN  (card.h4 # None /\ card.container # None) =>
                    \A t \in Range(Collected(card)) :
                        (Bolt \in Range(t) /\ Star \notin Range(t)) =>
                            /\ filter_mode = "flash" =>
                                   \E e \in EntriesOf(card, LastEntries) : t \in Range(e.deals)
                            /\ filter_mode = "events" =>
                                   \A e \in Range(LastEntries) : t \notin Range(e.deals)

\* C2: whenever a run finishes with no deal in any requested city (every
\* city's entry list is empty, or no city was processed), main prints the
\* localized "no deals found" message and renders no deals.
C2_EmptyResultShowsMessage ==
    (/\ pc = "done"
     /\ ~(args.city # None /\ args.all)
     /\ \A i \in 1..Len(cities_data) : cities_data[i].value = <<>>) =>
        /\ stdout # <<>>
        /\ stdout[Len(stdout)] =
               Line("no_deals_found", localized_strings[args.lang].no_deals_found)
        /\ \A i \in 1..Len(stdout) : stdout[i].kind # "deals_in"

\* C3: a card produces an entry exactly when it has a name heading, has a
\* deal container and its deal list is non-empty after filtering, under
\* every filter mode; so every entry of every city has at least one deal
\* and every deal text is non-empty.
C3_EntryIffNameContainerDeals ==
    /\ PageParsed =>
          /\ \A i \in 1..Len(Cards) : \A flag \in FilterFlags :
                 LET mode == FilterMode(flag)
                     card == Cards[i]
                 IN  extract_deals_from_card(card, mode).value # None
                     <=> (/\ card.h4 # None
                          /\ card.container # None
                          /\ Kept(card, mode) # <<>>)
          /\ Len(LastEntries) =
                 Cardinality({i \in 1..Len(Cards) :
                                 /\ Cards[i].h4 # None
                                 /\ Cards[i].container # None
                                 /\ Kept(Cards[i], filter_mode) # <<>>})
    /\ \A c \in 1..Len(cities_data) :
           \A n \in 1..Len(cities_data[c].value) :
               LET e == cities_data[c].value[n]
               IN  /\ e.deals # <<>>
                   /\ \A d \in Range(e.deals) : d # <<>> /\ Strip(d) = d

C3_Witness ==
    /\ PageParsed
    /\ filter_mode = "events"
    /\ page[1].html = <<NoNameCard, MixedCard>>
    /\ Len(LastEntries) = 1
    /\ pc = "done"

\* C4: when fetching a city's page fails, fetch_deals_from_city returns an
\* empty list without raising, as for a page with no cards; in an all-cities
\* run main records the empty list for the city and goes on with the
\* remaining cities.
C4_FetchFailureIsEmptyPage ==
    (page # None /\ ~page[1].ok) =>
        /\ error = "none"
        /\ fetch_deals_from_city(page[1], filter_mode)
               = fetch_deals_from_city(Fetched(<<>>), filter_mode)
        /\ HasKey(cities_data, LastSlug)
        /\ LastEntries = <<>>
        /\ (args.all /\ idx <= Len(cities)) => pc = "loop"
        /\ (args.all /\ idx > Len(cities)) => pc \in {"output", "done"}

C4_Witness ==
    /\ args.all
    /\ page # None /\ ~page[1].ok
    /\ pc = "loop"
    /\ idx = 2
    /\ Get(cities_data, cities[1].slug) = <<>>

\* C5: in the final map, the entries of a city are in the document order of
\* their cards, a card that occurs twice giving two entries, and the cities
\* are in the order in which they were requested or found in the directory.
C5_DocumentAndRequestOrder ==
    /\ PageParsed =>
          LET P == {i \in 1..Len(Cards) :
                       extract_deals_from_card(Cards[i], filter_mode).value # None}
          IN  /\ Len(LastEntries) = Cardinality(P)
              /\ \A i \in P :
                     LastEntries[1 + Below(P, i)]
                         = extract_deals_from_card(Cards[i], filter_mode).value[1]
    /\ error = "none" =>
          LET K == Keys(cities_data)
              First(k) == CHOOSE i \in 1..Len(Processed) :
                              /\ Processed[i] = k
                              /\ \A j \in 1..(i - 1) : Processed[j] # k
          IN  /\ Range(K) = Range(Processed)
              /\ \A a, b \in 1..Len(K) : a < b => K[a] # K[b] /\ First(K[a]) < First(K[b])
    /\ (error = "none" /\ directory # None /\ directory[1].ok) =>
          LET html == directory[1].html
              L == {i \in 1..Len(html) : html[i].label # None}
          IN  /\ Len(cities) = Cardinality(L)
              /\ \A i \in L : cities[1 + Below(L, i)].slug = Split(html[i].href[1])[4]

C5_Witness ==
    /\ pc = "done"
    /\ Keys(cities_data) = <<<<"munich">>, <<"berlin">>>>
    /\ page[1].html = <<MixedCard, MixedCard>>
    /\ Len(LastEntries) = 2
    /\ Get(cities_data, <<"munich">>) # <<>>

\* C6: no parse condition is fatal: for every directory page and every city
\* page nothing is raised, so an all-cities run always reaches the output
\* step.
C6_NoParseConditionFatal ==
    /\ error = "none"
    /\ pc # "crashed"

\* C7: for every deal list, the deals mode special keeps are a superset of
\* the deals mode events keeps together with the deals mode flash keeps.
C7_SpecialCoversEventsAndFlash ==
    PageParsed =>
        \A i \in 1..Len(Cards) :
            Cards[i].container # None =>
                /\ Range(Kept(Cards[i], FilterMode("events")))
                       \subseteq Range(Kept(Cards[i], FilterMode("special")))
                /\ Range(Kept(Cards[i], FilterMode("flash")))
                       \subseteq Range(Kept(Cards[i], FilterMode("special")))

C7_Witness ==
    /\ PageParsed
    /\ pc = "done"
    /\ filter_mode = "special"
    /\ page[1].html = <<FlashCard, MixedCard>>
    /\ Kept(MixedCard, "events") # <<>>
    /\ \E e \in Range(LastEntries) :
           e.deals = Kept(MixedCard, "special") /\ e.deals # Collected(MixedCard)

\* C8: every deal-preview subtype inside the deal container is collected: a
\* deal in an element whose component role ends in DealPreview is yielded,
\* and mode special keeps it when it has the star glyph.
C8_EveryPreviewSubtypeCollected ==
    PageParsed =>
        \A i \in 1..Len(Cards) :
            LET card == Cards[i]
            IN  (card.h4 # None /\ card.container # None) =>
                    \A n \in 1..Len(card.container[1]) :
                        LET el == card.container[1][n]
                        IN  EndsWith(el.component, <<"DealPreview">>) =>
                                \A t \in Range(DealTexts(el.spans)) :
                                    (\/ filter_mode = "None"
                                     \/ filter_mode = "special" /\ Star \in Range(t)) =>
                                        \E e \in EntriesOf(card, LastEntries) :
                                            t \in Range(e.deals)

\* C9: the link of every emitted entry is absolute: a link attribute without
\* a scheme is prefixed with the base origin, one with a scheme is left as
\* it is.
C9_LinkAlwaysAbsolute ==
    /\ \A c \in 1..Len(cities_data) :
           \A n \in 1..Len(cities_data[c].value) :
               IsAbsolute(cities_data[c].value[n].link)
    /\ PageParsed =>
           \A i \in 1..Len(Cards) :
               LET href == Cards[i].href[1]
                   r == extract_deals_from_card(Cards[i], filter_mode).value
               IN  r # None =>
                       r[1].link = IF HasScheme(href) THEN href ELSE BASE_URL \o href

\* C10: for every directory page, fetch_all_cities gives one CityRef per
\* anchor that has the name label, in document order, with the slug the
\* path segment at index 3 of the anchor's link; an anchor without the
\* label is skipped.
C10_OneCityRefPerLabelledAnchor ==
    (directory # None /\ directory[1].ok) =>
        LET html == directory[1].html
            L == {i \in 1..Len(html) : html[i].label # None}
        IN  /\ error = "none"
            /\ Len(cities) = Cardinality(L)
            /\ \A i \in L :
                   /\ html[i].href # None
                   /\ Len(Split(html[i].href[1])) >= 4
                   /\ cities[1 + Below(L, i)]
                          = [slug |-> Split(html[i].href[1])[4],
                             name |-> Strip(html[i].label[1])]
                   /\ cities[1 + Below(L, i)].name # <<>>


====
